---- MODULE Spec2Model ----
(***************************************************************************)
(* nest-logger: the Chrome extension's credential-lifecycle polling agent *)
(* (extension/background.js) together with the page-side pipeline that    *)
(* feeds it (interceptor.js -> relay.js -> background.js).                 *)
(*                                                                         *)
(* Every `await` of the source is a step boundary: a program counter      *)
(* names the browser operation that is pending, and the action for that   *)
(* label applies the operation's effect and then runs the synchronous     *)
(* code (and promise continuations, which are microtasks) that follows it *)
(* up to the next pending operation.                                       *)
(*                                                                         *)
(* The clock unit is one minute.                                           *)
(*                                                                         *)
(* parseNestData and cToF are also modelled on their own, applied to       *)
(* inputs drawn by the initial predicate, and the logging server           *)
(* (server/server.js, server/seed.js, server/db.js) as a state machine     *)
(* over the two tables of nest.db.                                         *)
(***************************************************************************)
EXTENDS Integers, Sequences, FiniteSets, TLC

\* ---------------------------------------------------------------- bounds
\* External events: app_launch responses the interceptor observes, alarm
\* ticks and clock advances.
MaxEvents == 2

\* rcs_settings buckets (thermostats with a sensor link table) in a snapshot.
MaxLinks == 2

\* Temperatures handed to cToF: -MaxTenths..MaxTenths tenths of a degree C.
MaxTenths == 400

\* Open tabs that match https://home.nest.com/* when the worker looks.
MaxTabs == 2

\* Requests the logging server ingests, and runs of the seed script.
MaxPosts    == 2
MaxSeedRuns == 2

\* The latest time at which waitFor() is called, and the longest polling
\* interval and timeout given to it.
MaxStart    == 1
MaxInterval == 2
MaxTimeout  == 3

\* ------------------------------------------------------ program constants
POLL_ALARM        == "nest_poll"
RETENTION_DAYS    == 90
RETENTION_MS      == RETENTION_DAYS * 24 * 60     \* in clock units (minutes)

Null == "null"

\* Every message and every poll is started by an external event.
Msgs  == 1..MaxEvents
Polls == 1..MaxEvents

\* ----------------------------------------------------------- input sets
\* Authorization header values seen on the page's app_launch request: the
\* page holds a fresh token at every load, or the header is not visible.
Tokens         == <<"tokA", "tokB", "tokC", "tokD">>
Authorizations == {Null} \cup {Tokens[k] : k \in Msgs}
\* The user id is taken from the request header or from the URL; the events
\* are told apart by it.
Users          == <<"u1", "u2", "u3", "u4">>
UserIds        == {Users[k] : k \in Msgs}

\* Bucket keys "<type>.<serial>" of a snapshot.
Bucket(t, s) == [type |-> t, serial |-> s]
\* An app_launch body: its updated_buckets list, which may be missing.
Snapshot(bs) == [present |-> TRUE, updated_buckets |-> bs]
NoBuckets    == [present |-> FALSE, updated_buckets |-> {}]
Snapshots ==
  { NoBuckets,
    Snapshot({}),
    Snapshot({Bucket("where", "w1")}),
    Snapshot({Bucket("kryptonite", "s1"), Bucket("where", "w1")}) }

\* Snapshots handed to parseNestData on its own: every combination of these
\* bucket keys, and a body without the list.
BucketKeys ==
  { Bucket("kryptonite", "s1"), Bucket("kryptonite", "s2"),
    Bucket("shared", "t1"), Bucket("device", "t1"), Bucket("where", "w1"),
    Bucket("rcs_settings", "t1"), Bucket("structure", "x1") }
ParseInputs == {NoBuckets} \cup {Snapshot(bs) : bs \in SUBSET BucketKeys}

\* HTTP outcomes of the vendor request; 0 stands for a network error.
Statuses == {0, 200, 401, 403, 500}

\* ------------------------------------------------------------ pure code
\* new Date().toISOString() and new Date(iso).getTime()
MinutesPerDay == 24 * 60
toISOString(t) == [day |-> t \div MinutesPerDay, minute |-> t % MinutesPerDay]
getTime(iso)   == iso.day * MinutesPerDay + iso.minute

\* for (const b of data.updated_buckets || []) buckets[b.object_key] = b.value
updatedBuckets(data) == IF data.present THEN data.updated_buckets ELSE {}

\* The sensor and thermostat lists a snapshot yields.
sensorsOf(data) ==
  {b.serial : b \in {x \in updatedBuckets(data) : x.type = "kryptonite"}}
thermostatsOf(data) ==
  {b.serial : b \in {x \in updatedBuckets(data) : x.type = "shared"}}

NoReading == [timestamp |-> toISOString(0), sensors |-> {}, thermostats |-> {},
              valid |-> FALSE]

\* parseNestData(data): null (valid = FALSE) or a reading stamped `t`.
parseNestData_noEmptyCheck(data, t) ==
  [timestamp |-> toISOString(t), sensors |-> sensorsOf(data),
   thermostats |-> thermostatsOf(data), valid |-> TRUE]

parseNestData_onlyEmptyMap(data, t) ==
  IF updatedBuckets(data) = {} THEN NoReading
  ELSE [timestamp |-> toISOString(t), sensors |-> sensorsOf(data),
        thermostats |-> thermostatsOf(data), valid |-> TRUE]

parseNestData(data, t) ==
  IF updatedBuckets(data) = {} THEN NoReading
  ELSE IF sensorsOf(data) = {} /\ thermostatsOf(data) = {} THEN NoReading
  ELSE [timestamp |-> toISOString(t), sensors |-> sensorsOf(data),
        thermostats |-> thermostatsOf(data), valid |-> TRUE]

\* parseAndPost's guard in the interceptor: is a message posted at all?
parseAndPostPosts(data) ==
  ~(sensorsOf(data) = {} /\ thermostatsOf(data) = {})

\* ------------------------------------------- parseNestData in detail
\* A bucket of updated_buckets: { object_key: "<type>.<serial>", value }.
Item(t, s, v) == [type |-> t, serial |-> s, value |-> v]
keyOf(b)      == Bucket(b.type, b.serial)

\* A field that may be missing from a bucket value.
Missing   == [present |-> FALSE, tenths |-> 0]
Tenths(n) == [present |-> TRUE, tenths |-> n]

\* A list field that may be missing: (x || []).
Unlisted   == [present |-> FALSE, items |-> {}]
Listed(xs) == [present |-> TRUE, items |-> xs]
orEmpty(l) == IF l.present THEN l.items ELSE {}

\* Math.round(num / den) for den > 0: floor(x + 1/2).
MathRound(num, den) == (2 * num + den) \div (2 * den)
MathTrunc(num, den) == IF num >= 0 THEN num \div den ELSE -((-num) \div den)

\* cToF(c), temperatures in tenths of a degree: c = n/10, and the result is
\* Math.round(c * 9 / 5 * 10 + 320) / 10 = Math.round((18n + 3200) / 10) / 10.
cToF_trunc(c) ==
  IF ~c.present THEN Missing
  ELSE Tenths(MathTrunc(18 * c.tenths + 3200, 10))

cToF(c) ==
  IF ~c.present THEN Missing
  ELSE Tenths(MathRound(18 * c.tenths + 3200, 10))

\* Entries of the bucket map whose key starts with "<t>.", in map order.
withPrefix(buckets, t) ==
  LET starts(b) == b.type = t IN SelectSeq(buckets, starts)

\* wheres[w.where_id] = w.name over every where.* bucket; a later entry
\* overwrites an earlier one.
RECURSIVE whereEntries(_)
whereEntries(ws) ==
  IF ws = <<>> THEN <<>> ELSE Head(ws).value.wheres \o whereEntries(Tail(ws))

RECURSIVE whereName(_, _)
whereName(entries, id) ==
  IF entries = <<>> THEN Null
  ELSE IF entries[Len(entries)].where_id = id THEN entries[Len(entries)].name
  ELSE whereName(SubSeq(entries, 1, Len(entries) - 1), id)

wheresOf(buckets) == whereEntries(withPrefix(buckets, "where"))

\* wheres[id] || fallback
roomOf(wheres, id, fallback) ==
  IF whereName(wheres, id) = Null THEN fallback ELSE whereName(wheres, id)

\* rcsMap: the rcs_settings.* buckets keyed by thermostat serial.
rcsMapOf(buckets) == withPrefix(buckets, "rcs_settings")

\* The loop over Object.entries(rcsMap) for one sensor key.
Unlinked == [thermostat_serial |-> Null, is_active |-> FALSE]
linkedTo(rcs, key) ==
  [thermostat_serial |-> rcs.serial,
   is_active |-> key \in orEmpty(rcs.value.active_rcs_sensors)]

RECURSIVE linkOf_lastMatch(_, _)
linkOf_lastMatch(rcsMap, key) ==
  IF rcsMap = <<>> THEN Unlinked
  ELSE LET rcs == rcsMap[Len(rcsMap)] IN
       IF key \in orEmpty(rcs.value.associated_rcs_sensors)
       THEN linkedTo(rcs, key)
       ELSE linkOf_lastMatch(SubSeq(rcsMap, 1, Len(rcsMap) - 1), key)

RECURSIVE linkOf(_, _)
linkOf(rcsMap, key) ==
  IF rcsMap = <<>> THEN Unlinked
  ELSE IF key \in orEmpty(Head(rcsMap).value.associated_rcs_sensors)
  THEN linkedTo(Head(rcsMap), key)
  ELSE linkOf(Tail(rcsMap), key)

\* sensors.push({...}) for one kryptonite.* bucket.
sensorOf(b, wheres, rcsMap) ==
  [serial            |-> b.serial,
   room              |-> roomOf(wheres, b.value.where_id, "Unknown"),
   temperature_c     |-> b.value.current_temperature,
   temperature_f     |-> cToF(b.value.current_temperature),
   battery_level     |-> b.value.battery_level,
   thermostat_serial |-> linkOf(rcsMap, keyOf(b)).thermostat_serial,
   is_active         |-> linkOf(rcsMap, keyOf(b)).is_active]

\* val.hvac_heater_state ? "heating" : val.hvac_ac_state ? "cooling"
\*   : val.hvac_fan_state ? "fan" : "idle"; a missing flag is falsy.
truthy(flag) == flag = "true"

hvacAction_coolFirst(val) ==
  IF truthy(val.hvac_ac_state) THEN "cooling"
  ELSE IF truthy(val.hvac_heater_state) THEN "heating"
  ELSE IF truthy(val.hvac_fan_state) THEN "fan"
  ELSE "idle"

hvacAction(val) ==
  IF truthy(val.hvac_heater_state) THEN "heating"
  ELSE IF truthy(val.hvac_ac_state) THEN "cooling"
  ELSE IF truthy(val.hvac_fan_state) THEN "fan"
  ELSE "idle"

\* buckets[`device.${serial}`] || {}
NoDevice == [where_id |-> Null]
deviceOf(buckets, serial) ==
  LET paired(b) == b.type = "device" /\ b.serial = serial
      ds == SelectSeq(buckets, paired)
  IN IF ds = <<>> THEN NoDevice ELSE ds[1].value

\* thermostats.push({...}) for one shared.* bucket.
thermostatOf(b, wheres, buckets) ==
  [serial                |-> b.serial,
   room                  |-> roomOf(wheres, deviceOf(buckets, b.serial).where_id,
                                    "Thermostat"),
   current_temperature_c |-> b.value.current_temperature,
   current_temperature_f |-> cToF(b.value.current_temperature),
   target_temperature_c  |-> b.value.target_temperature,
   target_temperature_f  |-> cToF(b.value.target_temperature),
   hvac_mode             |-> IF b.value.target_temperature_type = Null
                             THEN "off" ELSE b.value.target_temperature_type,
   hvac_action           |-> hvacAction(b.value),
   humidity              |-> b.value.current_humidity]

\* Which buckets the thermostat loop takes: key.startsWith("shared.").
thermostatBuckets_paired(buckets) ==
  LET paired(b) == /\ b.type = "shared"
                   /\ \E k \in 1..Len(buckets) :
                        buckets[k].type = "device" /\ buckets[k].serial = b.serial
  IN SelectSeq(buckets, paired)

thermostatBuckets(buckets) == withPrefix(buckets, "shared")

\* The two lists parseNestData builds from the bucket map.
parseSensors(buckets) ==
  LET ks == withPrefix(buckets, "kryptonite") IN
  [k \in 1..Len(ks) |-> sensorOf(ks[k], wheresOf(buckets), rcsMapOf(buckets))]

parseThermostats(buckets) ==
  LET ss == thermostatBuckets(buckets) IN
  [k \in 1..Len(ss) |-> thermostatOf(ss[k], wheresOf(buckets), buckets)]

\* parseNestData on the bucket map: null (valid = FALSE) for an empty map
\* and for a map with neither sensors nor thermostats.
parseBuckets(buckets) ==
  IF buckets = <<>> THEN [valid |-> FALSE, sensors |-> <<>>, thermostats |-> <<>>]
  ELSE IF parseSensors(buckets) = <<>> /\ parseThermostats(buckets) = <<>>
  THEN [valid |-> FALSE, sensors |-> <<>>, thermostats |-> <<>>]
  ELSE [valid |-> TRUE, sensors |-> parseSensors(buckets),
        thermostats |-> parseThermostats(buckets)]

\* The reading object relay.js forwards: { timestamp, sensors, thermostats }.
Reading(ts, ss, th) == [timestamp |-> ts, sensors |-> ss, thermostats |-> th]

\* creds?.authorization && creds?.userId
credsComplete(creds) == creds.authorization # Null /\ creds.userId # Null

\* storeReading's push and retention filter.
pushReading(rs, r) == Append(rs, r)
trimReadings_keepAll(rs, cutoff) == rs

trimReadings(rs, cutoff) ==
  LET keep(r) == getTime(r.timestamp) >= cutoff IN SelectSeq(rs, keep)

\* armAlarm: chrome.alarms.clear(POLL_ALARM), then chrome.alarms.create
\* (POLL_ALARM, ...), which replaces an alarm of the same name.
alarmsClear(as, name)  == as \ {name}
alarmsCreate(as, name) == as \cup {name}

armAlarm_otherName(as) == alarmsCreate(alarmsClear(as, POLL_ALARM), "nest_poll_2")

armAlarm(as) == alarmsCreate(alarmsClear(as, POLL_ALARM), POLL_ALARM)

\* ---------------------------------------------------------------- state
VARIABLES
  now,        \* Date.now()
  events,     \* external events so far
  nestCreds,  \* chrome.storage.local "nestCreds": {} (absent) or {record}
  readings,   \* chrome.storage.local "readings"
  alarms,     \* names of the chrome.alarms currently scheduled
  msgs,       \* intercepted app_launch responses on their way to the worker
  stores,     \* storeReading() invocations
  chains,     \* saveCredentials().then(armAlarm).then(poll) chains
  polls,      \* poll() invocations
  solo,       \* the poll that received 401/403 and has run alone since, or 0
  skipped,    \* the poll that has just returned for lack of credentials, or 0
  reload,     \* what the reloadNestTab() that has just run found and reloaded
  pin,        \* the argument of a function called on its own
  pout,       \* what the function returned for it: {} (not called) or {result}
  sensor_readings,  \* nest.db table sensor_readings
  hvac_states,      \* nest.db table hvac_states
  posts,            \* POST /api/readings requests handled so far
  seedRuns,         \* runs of seed.js so far
  response,         \* the server's latest HTTP response
  request,          \* the body of the latest POST /api/readings request
  wait              \* the latest waitFor() call: its promise and its timer

agentVars  == <<now, events, nestCreds, readings, alarms, msgs, stores, chains,
                polls, solo, skipped, reload>>
serverVars == <<sensor_readings, hvac_states, posts, seedRuns, response,
                request>>
vars       == <<agentVars, pin, pout, serverVars, wait>>

\* storeReading() invocations: one per handled message, one per poll.
StoreIds     == 1..(2 * MaxEvents)
MsgStore(i)  == i
PollStore(p) == MaxEvents + p
IsPollStore(s) == s > MaxEvents
StoreOwner(s)  == s - MaxEvents

NoCreds   == [authorization |-> Null, userId |-> Null]
EmptyRead == Reading(toISOString(0), {}, {})

IdleMsg   == [stage |-> "none", type |-> Null, reading |-> EmptyRead,
              creds |-> NoCreds]
IdleStore == [pc |-> "idle", reading |-> EmptyRead, trimmed |-> <<>>,
              cutoff |-> 0, dropped |-> 0]
IdleChain == [pc |-> "idle", save |-> "pending", cleared |-> FALSE]
IdlePoll  == [pc |-> "idle", creds |-> {}, status |-> 0]

\* reloadNestTab: the tabs chrome.tabs.query returned, each { id,
\* lastAccessed } with lastAccessed possibly undefined ({}), and the ids
\* handed to chrome.tabs.reload.
Tab(id, la) == [id |-> id, lastAccessed |-> la]
TabLists ==
  UNION { { [k \in 1..n |-> Tab(k, las[k])] : las \in [1..n -> {{}, {1}, {2}}] } :
          n \in 0..MaxTabs }

\* t.lastAccessed ?? 0
accessed(t) == IF t.lastAccessed = {} THEN 0 ELSE CHOOSE n \in t.lastAccessed : TRUE

\* tabs.reduce((best, t) => accessed(t) > accessed(best) ? t : best)
RECURSIVE reduceBest(_, _)
reduceBest(best, tabs) ==
  IF tabs = <<>> THEN best
  ELSE reduceBest(IF accessed(Head(tabs)) > accessed(best) THEN Head(tabs) ELSE best,
                  Tail(tabs))

reloadNestTab_all(tabs) == {tabs[k].id : k \in 1..Len(tabs)}

reloadNestTab(tabs) ==
  IF Len(tabs) = 0 THEN {}
  ELSE {reduceBest(Head(tabs), Tail(tabs)).id}

NoReload == [by |-> 0, tabs |-> <<>>, targets |-> {}]

\* No waitFor() call has been made: there is no promise and no timer.
NoWait == [state |-> "none", value |-> "undefined", deadline |-> 0,
           intervalMs |-> 0, timer |-> {}, results |-> <<>>, checkedAt |-> 0,
           resolves |-> 0, rejects |-> 0]

\* A fresh install: nothing stored, nothing scheduled, nothing running.
InitAgent ==
  /\ now = 0
  /\ events = 0
  /\ nestCreds = {}
  /\ readings = <<>>
  /\ alarms = {}
  /\ msgs   = [i \in Msgs |-> IdleMsg]
  /\ stores = [s \in StoreIds |-> IdleStore]
  /\ chains = [i \in Msgs |-> IdleChain]
  /\ polls  = [p \in Polls |-> IdlePoll]
  /\ solo = 0
  /\ skipped = 0
  /\ reload = NoReload

\* A new nest.db: db.js creates both tables empty.
NoResponse == [kind |-> "none"]
NoRequest  == [timestamp |-> 0, data |-> [type |-> "undefined", entries |-> <<>>],
               hvac_action |-> Null]
InitServer ==
  /\ sensor_readings = {}
  /\ hvac_states = {}
  /\ posts = 0
  /\ seedRuns = 0
  /\ response = NoResponse
  /\ request = NoRequest

Init ==
  /\ InitAgent
  /\ InitServer
  /\ wait = NoWait
  /\ pin = NoBuckets
  /\ pout = {}

\* ------------------------------------------------------------- helpers
FreePolls_whenNoFetch ==
  IF \E q \in Polls : polls[q].pc = "fetch" THEN {}
  ELSE {p \in Polls : polls[p].pc = "idle"}

FreePolls == {p \in Polls : polls[p].pc = "idle"}
NextPoll  == CHOOSE p \in FreePolls : \A q \in FreePolls : p <= q

\* poll() is called: it runs up to `await chrome.storage.local.get`.
callPoll(ps) == [ps EXCEPT ![NextPoll].pc = "get"]

\* storeReading(reading) is called: it runs up to `await ...get("readings")`.
callStoreReading(ss, s, r) == [ss EXCEPT ![s].pc = "get", ![s].reading = r]

\* ---------------------------------------------------------------- clock
\* The clock advances by one unit, by the retention window, or just past it.
ClockSteps == {1, RETENTION_MS, RETENTION_MS + 1}

Advance(d) ==
  /\ events < MaxEvents
  /\ events' = events + 1
  /\ now' = now + d
  /\ UNCHANGED <<nestCreds, readings, alarms, msgs, stores, chains, polls>>

\* ------------------------------------------- interceptor.js and relay.js
\* The wrapped fetch/XHR sees an app_launch response: extract the
\* credentials, parse the body, post the reading unless it is empty.
Intercept(i, data, auth, uid) ==
  /\ msgs[i].stage = "none"
  /\ \A j \in Msgs : j < i => msgs[j].stage # "none"
  /\ auth \in {Null, Tokens[i]}
  /\ uid = Users[i]
  /\ events < MaxEvents
  /\ events' = events + 1
  /\ IF parseAndPostPosts(data)
       THEN msgs' = [msgs EXCEPT ![i] =
               [stage |-> "posted", type |-> Null,
                reading |-> Reading(toISOString(now), sensorsOf(data),
                                    thermostatsOf(data)),
                creds |-> [authorization |-> auth, userId |-> uid]]]
       ELSE msgs' = msgs
  /\ UNCHANGED <<now, nestCreds, readings, alarms, stores, chains, polls>>

\* relay.js forwards the window message with chrome.runtime.sendMessage,
\* as a message of type NEST_READING.
Relay(i) ==
  /\ msgs[i].stage = "posted"
  /\ \A j \in Msgs : j < i => msgs[j].stage # "posted"
  /\ msgs' = [msgs EXCEPT ![i].stage = "sent", ![i].type = "NEST_READING"]
  /\ UNCHANGED <<now, events, nestCreds, readings, alarms, stores, chains, polls>>

\* Another sender's runtime message reaches the worker's listener: it has
\* another type, whatever else it carries.
OtherTypes == {"PING"}
OtherMessage(i, type) ==
  /\ msgs[i].stage = "none"
  /\ \A j \in Msgs : j < i => msgs[j].stage # "none"
  /\ events < MaxEvents
  /\ events' = events + 1
  /\ msgs' = [msgs EXCEPT ![i] =
               [stage |-> "sent", type |-> type,
                reading |-> Reading(toISOString(now), {"s1"}, {}),
                creds |-> [authorization |-> Tokens[i], userId |-> Users[i]]]]
  /\ UNCHANGED <<now, nestCreds, readings, alarms, stores, chains, polls>>

\* ------------------------------------------------------ message handler
chainStarts_either(creds) == creds.authorization # Null \/ creds.userId # Null

\* Are the credentials saved and the alarm (re-)armed for this message?
chainStarts(creds) == credsComplete(creds)

\* The first operation of the chain: saveCredentials' storage write.
chainEntry_armFirst == "armClear"

chainEntry == "save"

\* if (message.type !== "NEST_READING") return;
handles_any(type) == TRUE

handles(type) == type = "NEST_READING"

OnMessage(i) ==
  /\ msgs[i].stage = "sent"
  /\ \A j \in Msgs : j < i => msgs[j].stage # "sent"
  /\ stores' = IF handles(msgs[i].type)
                 THEN callStoreReading(stores, MsgStore(i), msgs[i].reading)
                 ELSE stores
  /\ chains' = IF handles(msgs[i].type) /\ chainStarts(msgs[i].creds)
                 THEN [chains EXCEPT ![i].pc = chainEntry]
                 ELSE chains
  /\ msgs' = [msgs EXCEPT ![i].stage = "handled", ![i].reading = EmptyRead]
  /\ UNCHANGED <<now, events, nestCreds, readings, alarms, polls>>

\* --------------------------------------------------------- storeReading
\* `get` resolves: push, compute the cutoff, filter, issue the `set`.
storeTrim_pushOnly(rs, r, t) == pushReading(rs, r)

storeTrim(rs, r, t) == trimReadings(pushReading(rs, r), t - RETENTION_MS)

StoreGet(s) ==
  /\ stores[s].pc = "get"
  /\ LET pushed  == pushReading(readings, stores[s].reading)
         cutoff  == now - RETENTION_MS
         trimmed == storeTrim(readings, stores[s].reading, now)
     IN stores' = [stores EXCEPT ![s].pc = "set",
                                 ![s].trimmed = trimmed,
                                 ![s].cutoff = cutoff,
                                 ![s].dropped = Len(pushed) - Len(trimmed)]
  /\ UNCHANGED <<now, events, nestCreds, readings, alarms, msgs, chains, polls>>

\* `set` resolves: the stored history is replaced by the trimmed list.
StoreSet(s) ==
  /\ stores[s].pc = "set"
  /\ readings' = stores[s].trimmed
  /\ stores' = [stores EXCEPT ![s] = [IdleStore EXCEPT !.pc = "done",
                                     !.dropped = stores[s].dropped]]
  /\ polls' = IF IsPollStore(s)
                THEN [polls EXCEPT ![StoreOwner(s)].pc = "done"]
                ELSE polls
  /\ UNCHANGED <<now, events, nestCreds, alarms, msgs, chains>>

\* ------------------------------------- saveCredentials / armAlarm chain
\* What follows the settling of saveCredentials' storage write.
afterSave_always(ok) == "armClear"

afterSave(ok) == IF ok THEN "armClear" ELSE "done"

\* chrome.storage.local.set({ nestCreds: { authorization, userId } })
savedCreds_merge(creds, old) ==
  {[authorization |-> creds.authorization,
    userId        |-> IF old = {} THEN creds.userId
                      ELSE (CHOOSE c \in old : TRUE).userId]}

savedCreds(creds, old) ==
  {[authorization |-> creds.authorization, userId |-> creds.userId]}

\* The writes of the key are applied in the order in which the handlers
\* issued them.
SaveCredentials(i, ok) ==
  /\ chains[i].pc = "save"
  /\ \A j \in Msgs : j < i => chains[j].pc # "save"
  /\ nestCreds' = IF ok THEN savedCreds(msgs[i].creds, nestCreds) ELSE nestCreds
  /\ chains' = [chains EXCEPT ![i].pc = afterSave(ok),
                              ![i].save = IF ok THEN "ok" ELSE "rejected"]
  /\ UNCHANGED <<now, events, readings, alarms, msgs, stores, polls>>

\* alarms.clear resolves, the alarm is created, and the immediate poll starts.
ArmAlarm(i) ==
  /\ chains[i].pc = "armClear"
  /\ FreePolls # {}
  /\ alarms' = armAlarm(alarms)
  /\ chains' = [chains EXCEPT ![i].pc = "done",
                              ![i].cleared = (POLL_ALARM \in alarms)]
  /\ polls' = callPoll(polls)
  /\ UNCHANGED <<now, events, nestCreds, readings, msgs, stores>>

\* -------------------------------------------------------- alarm handler
AlarmFire(name) ==
  /\ name \in alarms
  /\ name = POLL_ALARM
  /\ FreePolls # {}
  /\ events < MaxEvents
  /\ events' = events + 1
  /\ polls' = callPoll(polls)
  /\ UNCHANGED <<now, nestCreds, readings, alarms, msgs, stores, chains>>

\* ----------------------------------------------------------------- poll
\* The credentials the worker still holds in the closures of its credential
\* chains; poll() does not look at them.
LastSaved == {i \in Msgs : chains[i].save = "ok"}
heldCreds ==
  IF LastSaved = {} THEN {}
  ELSE LET i == CHOOSE k \in LastSaved : \A j \in LastSaved : j <= k
       IN {[authorization |-> msgs[i].creds.authorization,
            userId        |-> msgs[i].creds.userId]}

\* const { nestCreds } = await chrome.storage.local.get("nestCreds")
loadCreds_held(stored, held) == held

loadCreds(stored, held) == stored

\* if (!nestCreds) return; otherwise the vendor request is issued.
afterGet_noGuard(creds) == "fetch"
afterGet_expire(creds) == IF creds = {} THEN "clearAlarm" ELSE "fetch"

afterGet(creds) == IF creds = {} THEN "done" ELSE "fetch"

\* The credentials are loaded; without them the poll returns, otherwise the
\* vendor request is issued.
PollGet(p) ==
  /\ polls[p].pc = "get"
  /\ LET creds == loadCreds(nestCreds, heldCreds) IN
       polls' = [polls EXCEPT ![p].pc = afterGet(creds), ![p].creds = creds]
  /\ UNCHANGED <<now, events, nestCreds, readings, alarms, msgs, stores, chains>>

\* How poll() continues after the vendor request settles with `status`.
IsAuthExpired(status) == status = 401 \/ status = 403
afterFetch_anyError(status) ==
  IF status = 0 THEN "done"
  ELSE IF status < 200 \/ status > 299 THEN "clearAlarm"
  ELSE "json"

afterFetch(status) ==
  IF status = 0 THEN "done"
  ELSE IF IsAuthExpired(status) THEN "clearAlarm"
  ELSE IF status < 200 \/ status > 299 THEN "done"
  ELSE "json"

PollFetch(p, status) ==
  /\ polls[p].pc = "fetch"
  /\ polls' = [polls EXCEPT ![p].pc = afterFetch(status),
                            ![p].creds = IF afterFetch(status) = "done"
                                           THEN {} ELSE polls[p].creds,
                            ![p].status = IF afterFetch(status) = "done"
                                            THEN 0 ELSE status]
  /\ UNCHANGED <<now, events, nestCreds, readings, alarms, msgs, stores, chains>>

\* await chrome.alarms.clear(POLL_ALARM)
PollClearAlarm(p) ==
  /\ polls[p].pc = "clearAlarm"
  /\ alarms' = alarmsClear(alarms, POLL_ALARM)
  /\ polls' = [polls EXCEPT ![p].pc = "removeCreds"]
  /\ UNCHANGED <<now, events, nestCreds, readings, msgs, stores, chains>>

\* await chrome.storage.local.remove("nestCreds")
storageRemoveCreds_keep(c) == c

storageRemoveCreds(c) == {}

PollRemoveCreds(p) ==
  /\ polls[p].pc = "removeCreds"
  /\ nestCreds' = storageRemoveCreds(nestCreds)
  /\ polls' = [polls EXCEPT ![p].pc = "reload"]
  /\ UNCHANGED <<now, events, readings, alarms, msgs, stores, chains>>

\* await reloadNestTab()
PollReload(p) ==
  /\ polls[p].pc = "reload"
  /\ polls' = [polls EXCEPT ![p] = [IdlePoll EXCEPT !.pc = "done"]]
  /\ UNCHANGED <<now, events, nestCreds, readings, alarms, msgs, stores, chains>>

\* resp.json() settles; a parsed body is handed to parseNestData and a
\* non-null reading to storeReading.
PollJson(p, ok, data) ==
  /\ polls[p].pc = "json"
  /\ LET reading == parseNestData(data, now) IN
       IF ok /\ reading.valid
         THEN /\ polls' = [polls EXCEPT ![p] = [IdlePoll EXCEPT !.pc = "store"]]
              /\ stores' = callStoreReading(stores, PollStore(p),
                             Reading(reading.timestamp, reading.sensors,
                                     reading.thermostats))
         ELSE /\ polls' = [polls EXCEPT ![p] = [IdlePoll EXCEPT !.pc = "done"]]
              /\ stores' = stores
  /\ UNCHANGED <<now, events, nestCreds, readings, alarms, msgs, chains>>

\* ---------------------------------------------------------------- Next
\* Every step of the agent records who ran alone and which poll has just
\* returned without credentials, and leaves the stand-alone calls and the
\* server untouched.
Records(v, p, r) ==
  /\ solo' = v
  /\ skipped' = p
  /\ reload' = r
  /\ UNCHANGED <<pin, pout, serverVars, wait>>
Alone(v) == Records(v, 0, NoReload)
Skips(p) == Records(0, IF polls'[p].pc = "done" THEN p ELSE 0, NoReload)
\* chrome.tabs.query resolves with `tabs`, and reloadNestTab runs to its end.
Reloads(p, tabs) ==
  Records(IF solo = p THEN p ELSE 0, 0,
          [by |-> p, tabs |-> tabs, targets |-> reloadNestTab(tabs)])

ExpirySteps(p) ==
  \/ PollClearAlarm(p)
  \/ PollRemoveCreds(p)

Next ==
  \/ \E d \in ClockSteps : Advance(d) /\ Alone(0)
  \/ \E i \in Msgs, data \in Snapshots, auth \in Authorizations, uid \in UserIds :
       Intercept(i, data, auth, uid) /\ Alone(0)
  \/ \E i \in Msgs : Relay(i) /\ Alone(0)
  \/ \E i \in Msgs, type \in OtherTypes : OtherMessage(i, type) /\ Alone(0)
  \/ \E i \in Msgs : OnMessage(i) /\ Alone(0)
  \/ \E s \in StoreIds : StoreGet(s) /\ Alone(0)
  \/ \E s \in StoreIds : StoreSet(s) /\ Alone(0)
  \/ \E i \in Msgs, ok \in BOOLEAN : SaveCredentials(i, ok) /\ Alone(0)
  \/ \E i \in Msgs : ArmAlarm(i) /\ Alone(0)
  \/ \E name \in alarms : AlarmFire(name) /\ Alone(0)
  \/ \E p \in Polls : PollGet(p) /\ Skips(p)
  \/ \E p \in Polls, status \in Statuses :
       PollFetch(p, status) /\ Alone(IF IsAuthExpired(status) THEN p ELSE 0)
  \/ \E p \in Polls : ExpirySteps(p) /\ Alone(IF solo = p THEN p ELSE 0)
  \/ \E p \in Polls, tabs \in TabLists : PollReload(p) /\ Reloads(p, tabs)
  \/ \E p \in Polls, ok \in BOOLEAN, data \in Snapshots :
       PollJson(p, ok, data) /\ Alone(0)

Spec == Init /\ [][Next]_vars

\* ---------------------------------------------------- worker restarts
\* No handler is running and no browser operation is pending.
Quiescent ==
  /\ \A s \in StoreIds : stores[s].pc \in {"idle", "done"}
  /\ \A i \in Msgs : chains[i].pc \in {"idle", "done"}
  /\ \A p \in Polls : polls[p].pc \in {"idle", "done"}

\* The browser stops the idle service worker and starts it again for the
\* next event: what the worker held in memory is gone, chrome.storage and
\* chrome.alarms keep their contents.
Restart ==
  /\ Quiescent
  /\ stores' = [s \in StoreIds |-> IdleStore]
  /\ chains' = [i \in Msgs |-> IdleChain]
  /\ polls'  = [p \in Polls |-> IdlePoll]
  /\ UNCHANGED <<now, events, nestCreds, readings, alarms, msgs>>

NextRestart ==
  \/ Next
  \/ Restart /\ Alone(0)

SpecRestart == Init /\ [][NextRestart]_vars

\* ------------------------------------------------------------ fairness
\* The browser completes every storage, alarm and tab operation and delivers
\* every message; the vendor owes no response, and no event has to occur.
WorkerStep ==
  \/ \E i \in Msgs : Relay(i) /\ Alone(0)
  \/ \E i \in Msgs : OnMessage(i) /\ Alone(0)
  \/ \E s \in StoreIds : StoreGet(s) /\ Alone(0)
  \/ \E s \in StoreIds : StoreSet(s) /\ Alone(0)
  \/ \E i \in Msgs, ok \in BOOLEAN : SaveCredentials(i, ok) /\ Alone(0)
  \/ \E i \in Msgs : ArmAlarm(i) /\ Alone(0)
  \/ \E p \in Polls : PollGet(p) /\ Skips(p)
  \/ \E p \in Polls : ExpirySteps(p) /\ Alone(IF solo = p THEN p ELSE 0)
  \/ \E p \in Polls, tabs \in TabLists : PollReload(p) /\ Reloads(p, tabs)
  \/ \E p \in Polls, ok \in BOOLEAN, data \in Snapshots :
       PollJson(p, ok, data) /\ Alone(0)

SpecLive == Spec /\ WF_vars(WorkerStep)

\* ------------------------------------------- parseNestData on its own
InitParse ==
  /\ InitAgent
  /\ InitServer
  /\ wait = NoWait
  /\ pin \in ParseInputs
  /\ pout = {}

ParseCall ==
  /\ pout = {}
  /\ pout' = {parseNestData(pin, now)}
  /\ UNCHANGED <<agentVars, pin, serverVars, wait>>

NextParse == ParseCall

SpecParse == InitParse /\ [][NextParse]_vars

\* ------------------------------ parseNestData's lists on a bucket map
Thermostats == <<"t1", "t2", "t3", "t4">>
SensorKey   == Bucket("kryptonite", "s1")

RcsValues ==
  [associated_rcs_sensors : {Unlisted, Listed({}), Listed({SensorKey})},
   active_rcs_sensors     : {Unlisted, Listed({SensorKey})}]

\* Link tables: up to MaxLinks rcs_settings buckets of distinct thermostats,
\* in any order.
LinkTables ==
  UNION { { [k \in 1..n |-> Item("rcs_settings", Thermostats[order[k]], vals[k])] :
              order \in {f \in [1..n -> 1..MaxLinks] :
                           \A i, j \in 1..n : i # j => f[i] # f[j]},
              vals \in [1..n -> RcsValues] } : n \in 0..MaxLinks }

WhereLists ==
  { <<>>,
    <<Item("where", "x1", [wheres |-> <<[where_id |-> "w1", name |-> "Kitchen"]>>])>> }

SensorLists ==
  { <<>>,
    <<Item("kryptonite", "s1", [where_id |-> "w1", current_temperature |-> Tenths(205),
                                battery_level |-> 87])>>,
    <<Item("kryptonite", "s1", [where_id |-> Null, current_temperature |-> Missing,
                                battery_level |-> Null])>> }

Flags == {"true", "false"}
SharedValue(h, a, f) ==
  [current_temperature |-> Tenths(210), target_temperature |-> Tenths(200),
   target_temperature_type |-> "heat", hvac_heater_state |-> h,
   hvac_ac_state |-> a, hvac_fan_state |-> f, current_humidity |-> 40]
SharedLists ==
  { <<>>,
    <<Item("shared", "t1",
           [current_temperature |-> Missing, target_temperature |-> Missing,
            target_temperature_type |-> Null, hvac_heater_state |-> "undefined",
            hvac_ac_state |-> "undefined", hvac_fan_state |-> "undefined",
            current_humidity |-> Null])>> }
  \cup { <<Item("shared", "t1", SharedValue(h, a, f))>> : h, a, f \in Flags }

DeviceLists == { <<>>, <<Item("device", "t1", [where_id |-> "w1"])>> }

\* Buckets of types the parser does not read.
OtherLists == { <<>>, <<Item("structure", "x1", [name |-> "Home"])>> }

BucketMaps ==
  { o \o w \o r \o k \o sh \o d :
      o \in OtherLists, w \in WhereLists, r \in LinkTables, k \in SensorLists,
      sh \in SharedLists, d \in DeviceLists }

InitBuckets ==
  /\ InitAgent
  /\ InitServer
  /\ wait = NoWait
  /\ pin \in BucketMaps
  /\ pout = {}

BucketsCall ==
  /\ pout = {}
  /\ pout' = {parseBuckets(pin)}
  /\ UNCHANGED <<agentVars, pin, serverVars, wait>>

NextBuckets == BucketsCall

SpecBuckets == InitBuckets /\ [][NextBuckets]_vars

\* ------------------------------------------------------ cToF on its own
Celsius == {Missing} \cup {Tenths(n) : n \in (-MaxTenths)..MaxTenths}

InitCToF ==
  /\ InitAgent
  /\ InitServer
  /\ wait = NoWait
  /\ pin \in Celsius
  /\ pout = {}

CToFCall ==
  /\ pout = {}
  /\ pout' = {cToF(pin)}
  /\ UNCHANGED <<agentVars, pin, serverVars, wait>>

NextCToF == CToFCall

SpecCToF == InitCToF /\ [][NextCToF]_vars

\* ------------------------------------------- the logging server's database
TEMPERATURE  == "TEMPERATURE SENSORS"
\* Two of the seed's sensors, in alphabetical order.
SENSOR_NAMES == <<"Entryway Thermostat", "Kitchen">>

\* Timestamps are ISO strings of one format, named by their chronological
\* rank; the seed's fixed window ending at END_DATE covers SeedTimes.
Times     == 1..4
SeedTimes == <<2, 3>>

Row(ts, section, sensor, value) ==
  [timestamp |-> ts, section |-> section, sensor |-> sensor, value |-> value]
Hvac(ts, action) == [timestamp |-> ts, action |-> action]

\* INSERT OR IGNORE under PRIMARY KEY (timestamp, section, sensor).
insertReading_replace(table, r) ==
  {x \in table : ~(/\ x.timestamp = r.timestamp
                   /\ x.section = r.section
                   /\ x.sensor = r.sensor)} \cup {r}

insertReading(table, r) ==
  IF \E x \in table : /\ x.timestamp = r.timestamp
                      /\ x.section = r.section
                      /\ x.sensor = r.sensor
  THEN table ELSE table \cup {r}

\* INSERT OR IGNORE under PRIMARY KEY (timestamp).
insertHvac_replace(table, h) ==
  {x \in table : x.timestamp # h.timestamp} \cup {h}

insertHvac(table, h) ==
  IF \E x \in table : x.timestamp = h.timestamp THEN table ELSE table \cup {h}

RECURSIVE insertReadings(_, _)
insertReadings(table, rows) ==
  IF rows = <<>> THEN table
  ELSE insertReadings(insertReading(table, Head(rows)), Tail(rows))

RECURSIVE insertHvacs(_, _)
insertHvacs(table, hs) ==
  IF hs = <<>> THEN table
  ELSE insertHvacs(insertHvac(table, Head(hs)), Tail(hs))

\* generateDummyData: the timestamps are fixed, the temperatures are random
\* (temps[k][n] is sensor n's value at the k-th timestamp), and the HVAC
\* action follows the thermostat's temperature. The thermostat's value
\* varies from run to run here; the kitchen's is held at 69.
SeedTemps ==
  {temps \in [1..Len(SeedTimes) -> [1..Len(SENSOR_NAMES) -> {68, 69, 71, 74}]] :
     \A k \in 1..Len(SeedTimes) : temps[k][1] # 69 /\ temps[k][2] = 69}
seedHvacAction(thermoTemp) ==
  IF thermoTemp < 69 THEN "heat" ELSE IF thermoTemp > 73 THEN "cool" ELSE "idle"

seedReadings(temps) ==
  [m \in 1..(Len(SeedTimes) * Len(SENSOR_NAMES)) |->
     LET k == ((m - 1) \div Len(SENSOR_NAMES)) + 1
         n == ((m - 1) % Len(SENSOR_NAMES)) + 1
     IN Row(SeedTimes[k], TEMPERATURE, SENSOR_NAMES[n], temps[k][n])]
seedHvacs(temps) ==
  [k \in 1..Len(SeedTimes) |-> Hvac(SeedTimes[k], seedHvacAction(temps[k][1]))]

\* node seed.js: one transaction.
RunSeed(temps) ==
  /\ seedRuns < MaxSeedRuns
  /\ seedRuns' = seedRuns + 1
  /\ sensor_readings' = insertReadings(sensor_readings, seedReadings(temps))
  /\ hvac_states' = insertHvacs(hvac_states, seedHvacs(temps))
  /\ response' = NoResponse
  /\ request' = NoRequest
  /\ UNCHANGED <<agentVars, pin, pout, wait, posts>>

\* Request bodies { timestamp, data: { section: { sensor: value } },
\* hvac_action }. A data object is listed entry by entry in Object.entries
\* order, each value with its JSON type; data may also be null, a string, or
\* missing, and a missing timestamp is written 0.
Entry(section, sensor, value) ==
  [section |-> section, sensor |-> sensor, value |-> value, type |-> "number"]
BooleanEntry(section, sensor) ==
  [section |-> section, sensor |-> sensor, value |-> 0, type |-> "boolean"]
Data(entries) == [type |-> "object", entries |-> entries]
NullData      == [type |-> "null", entries |-> <<>>]
StringData    == [type |-> "string", entries |-> <<>>]
NoData        == [type |-> "undefined", entries |-> <<>>]

PostData ==
  { <<Entry(TEMPERATURE, SENSOR_NAMES[n], v)>> :
      n \in 1..Len(SENSOR_NAMES), v \in {70, 72} }
  \cup { <<Entry("HUMIDITY SENSORS", SENSOR_NAMES[1], 70)>>,
         <<Entry(TEMPERATURE, SENSOR_NAMES[1], 70),
           Entry(TEMPERATURE, SENSOR_NAMES[2], 72)>> }
Body(ts, data) == [timestamp |-> ts, data |-> data, hvac_action |-> "heat"]
PostBodies ==
  { Body(ts, Data(es)) : ts \in Times, es \in PostData }
  \cup { Body(0, Data(<<Entry(TEMPERATURE, SENSOR_NAMES[1], 70)>>)) }
  \cup { Body(1, d) : d \in {NullData, StringData, NoData} }
  \cup { Body(1, Data(<<Entry(TEMPERATURE, SENSOR_NAMES[1], 70),
                        BooleanEntry(TEMPERATURE, SENSOR_NAMES[2])>>)) }

\* typeof data: null is an "object".
typeOf(data) == IF data.type = "null" THEN "object" ELSE data.type

\* !timestamp || typeof data !== 'object'
rejects(body) == body.timestamp = 0 \/ typeOf(body.data) # "object"

\* insertReading.run binds numbers, strings, bigints, buffers and null, and
\* throws a TypeError for any other value.
binds(e) == e.type = "number"

\* The loop inside the transaction: it stops at the first statement that
\* throws; count is incremented after every statement that ran.
RECURSIVE runInserts(_, _, _, _)
runInserts(table, ts, entries, count) ==
  IF entries = <<>> THEN [table |-> table, threw |-> FALSE, count |-> count]
  ELSE IF ~binds(Head(entries))
  THEN [table |-> table, threw |-> TRUE, count |-> count]
  ELSE runInserts(insertReading(table, Row(ts, Head(entries).section,
                                           Head(entries).sensor,
                                           Head(entries).value)),
                  ts, Tail(entries), count + 1)

\* db.transaction(fn)(): commits what fn wrote, or rolls it back if fn threw.
transaction_noRollback(before, run) == run.table

transaction(before, run) == IF run.threw THEN before ELSE run.table

\* An exception leaving the route handler is answered by the framework's
\* error handler with status 500.
ErrorResponse(status) == [kind |-> "error", status |-> status]

\* POST /api/readings
PostReadings(body) ==
  /\ posts < MaxPosts
  /\ posts' = posts + 1
  /\ request' = body
  /\ IF rejects(body)
       THEN /\ response' = ErrorResponse(400)
            /\ sensor_readings' = sensor_readings
       ELSE IF body.data.type = "null"
       THEN \* Object.entries(null) throws before any statement runs
            /\ response' = ErrorResponse(500)
            /\ sensor_readings' = sensor_readings
       ELSE LET run == runInserts(sensor_readings, body.timestamp,
                                  body.data.entries, 0)
            IN /\ sensor_readings' = transaction(sensor_readings, run)
               /\ response' = IF run.threw THEN ErrorResponse(500)
                              ELSE [kind |-> "ingest", ok |-> TRUE,
                                    inserted |-> run.count]
  /\ UNCHANGED <<agentVars, pin, pout, wait, hvac_states, seedRuns>>

\* queryReadings
temperatureRows(table) == {r \in table : r.section = TEMPERATURE}

RECURSIVE ascending_latestFirst(_)
ascending_latestFirst(ts) ==
  IF ts = {} THEN <<>>
  ELSE LET last == CHOOSE t \in ts : \A u \in ts : u <= t
       IN <<last>> \o ascending_latestFirst(ts \ {last})

RECURSIVE ascending(_)
ascending(ts) ==
  IF ts = {} THEN <<>>
  ELSE LET first == CHOOSE t \in ts : \A u \in ts : t <= u
       IN <<first>> \o ascending(ts \ {first})

sensorRank(name) == CHOOSE n \in 1..Len(SENSOR_NAMES) : SENSOR_NAMES[n] = name
firstSeen(table, name) ==
  LET ts == {r.timestamp : r \in {x \in temperatureRows(table) : x.sensor = name}}
  IN CHOOSE t \in ts : \A u \in ts : t <= u

\* SELECT sensor ... GROUP BY sensor ORDER BY MIN(timestamp), sensor
RECURSIVE sensorsInOrder(_, _)
sensorsInOrder(table, names) ==
  IF names = {} THEN <<>>
  ELSE LET before(a, b) ==
             \/ firstSeen(table, a) < firstSeen(table, b)
             \/ firstSeen(table, a) = firstSeen(table, b)
                /\ sensorRank(a) <= sensorRank(b)
           first == CHOOSE a \in names : \A b \in names : before(a, b)
       IN <<first>> \o sensorsInOrder(table, names \ {first})

\* One snapshot per timestamp, with hvacByTs.get(timestamp) ?? 'idle'.
snapshotAt(table, hvac, t) ==
  LET rows  == {r \in temperatureRows(table) : r.timestamp = t}
      names == {r.sensor : r \in rows}
      own   == {h \in hvac : h.timestamp = t}
  IN [timestamp   |-> t,
      sensors     |-> [n \in names |->
                         (CHOOSE r \in rows : r.sensor = n).value],
      hvac_action |-> IF own = {} THEN "idle"
                      ELSE (CHOOSE h \in own : TRUE).action]

\* The loop that carries lastKnownAction into the snapshots that have no
\* hvac_states row.
RECURSIVE carryForward_idle(_, _, _)
carryForward_idle(rows, hvac, lastKnownAction) ==
  IF rows = <<>> THEN <<>>
  ELSE <<Head(rows)>> \o carryForward_idle(Tail(rows), hvac, lastKnownAction)

RECURSIVE carryForward(_, _, _)
carryForward(rows, hvac, lastKnownAction) ==
  IF rows = <<>> THEN <<>>
  ELSE IF \E h \in hvac : h.timestamp = Head(rows).timestamp
  THEN <<Head(rows)>> \o carryForward(Tail(rows), hvac, Head(rows).hvac_action)
  ELSE <<[Head(rows) EXCEPT !.hvac_action = lastKnownAction]>>
       \o carryForward(Tail(rows), hvac, lastKnownAction)

queryReadings(table, hvac) ==
  LET ts   == ascending({r.timestamp : r \in temperatureRows(table)})
      rows == [k \in 1..Len(ts) |-> snapshotAt(table, hvac, ts[k])]
  IN [sensors |-> sensorsInOrder(table, {r.sensor : r \in temperatureRows(table)}),
      rows    |-> carryForward(rows, hvac, "idle")]

\* GET /api/readings
GetReadings ==
  /\ response' = [kind |-> "readings",
                  data |-> queryReadings(sensor_readings, hvac_states)]
  /\ UNCHANGED <<agentVars, pin, pout, wait, sensor_readings, hvac_states, posts,
                 seedRuns, request>>

NextServer ==
  \/ \E temps \in SeedTemps : RunSeed(temps)
  \/ \E body \in PostBodies : PostReadings(body)
  \/ GetReadings

SpecServer == Init /\ [][NextServer]_vars

\* ------------------------------------------------- waitFor on its own
\* What a predicate returns: undefined (find() without a match), or one of
\* two truthy values.
Results   == {"undefined", "link", "container"}
Intervals == 1..MaxInterval
Timeouts  == 0..MaxTimeout
\* The clock is followed until every timer of a call can have fired.
Horizon   == MaxStart + MaxTimeout + MaxInterval

\* if (result)
passes(result) == result # "undefined"

\* Date.now() >= deadline
expired_strict(t, deadline) == t > deadline

expired(t, deadline) == t >= deadline

\* The promise's resolve and reject: only the first call settles it.
resolve(w, v) ==
  LET c == [w EXCEPT !.resolves = @ + 1]
  IN IF w.state = "pending" THEN [c EXCEPT !.state = "resolved", !.value = v]
     ELSE c

reject(w) ==
  LET c == [w EXCEPT !.rejects = @ + 1]
  IN IF w.state = "pending" THEN [c EXCEPT !.state = "rejected"] ELSE c

\* setTimeout(check, intervalMs) at time t
setTimeout(w, t) == [w EXCEPT !.timer = {t + w.intervalMs}]

\* check() runs at time t and the predicate returns `result`.
check(w, result, t) ==
  LET c == [w EXCEPT !.results = Append(@, result), !.checkedAt = t,
                     !.timer = {}]
  IN IF passes(result) THEN resolve(c, result)
     ELSE IF expired(t, w.deadline) THEN reject(c)
     ELSE setTimeout(c, t)

\* What a step of waitFor leaves alone: everything but the clock and `wait`.
OnlyWaits ==
  UNCHANGED <<events, nestCreds, readings, alarms, msgs, stores, chains,
              polls, solo, skipped, reload, pin, pout, serverVars>>

\* waitFor(predicate, intervalMs, timeoutMs) is called: the executor sets
\* the deadline and runs the first check() at once.
WaitForCall(intervalMs, timeoutMs, result) ==
  /\ wait.state = "none"
  /\ now <= MaxStart
  /\ wait' = check([NoWait EXCEPT !.state = "pending",
                                  !.deadline = now + timeoutMs,
                                  !.intervalMs = intervalMs], result, now)
  /\ UNCHANGED now
  /\ OnlyWaits

\* The timer set by check() fires, at its due time or later.
TimerFires(result) ==
  /\ wait.timer # {}
  /\ \A due \in wait.timer : now >= due
  /\ wait' = check(wait, result, now)
  /\ UNCHANGED now
  /\ OnlyWaits

\* Time passes.
Tick ==
  /\ now < Horizon
  /\ now' = now + 1
  /\ UNCHANGED wait
  /\ OnlyWaits

TimerStep == \E result \in Results : TimerFires(result)

NextWaitFor ==
  \/ \E i \in Intervals, t \in Timeouts, result \in Results :
       WaitForCall(i, t, result)
  \/ TimerStep
  \/ Tick

SpecWaitFor == Init /\ [][NextWaitFor]_vars

\* The event loop runs every timer that is due, and time does not stand
\* still.
SpecWaitLive == SpecWaitFor /\ WF_vars(TimerStep) /\ WF_vars(Tick)

\* ================================================================ claims
Range(f) == {f[k] : k \in DOMAIN f}
StoredTimes == [k \in DOMAIN readings |-> getTime(readings[k].timestamp)]

\* C1: at every instant at most one vendor request (the fetch of poll()) is
\* in flight; a trigger that fires while an earlier poll is still waiting for
\* the vendor does not start a second request.
C1_SinglePollInFlight ==
  Cardinality({p \in Polls : polls[p].pc = "fetch"}) <= 1

\* C2: when a poll has received 401 or 403 and nothing else has happened
\* since, then once that poll has finished no credential is stored and the
\* poll alarm is cleared.
C2_AuthExpiryDisarms ==
  \A p \in Polls :
    (solo = p /\ polls[p].pc = "done") =>
      (nestCreds = {} /\ POLL_ALARM \notin alarms)

C2_Witness ==
  \E p \in Polls :
    solo = p /\ polls[p].pc = "done" /\ nestCreds = {} /\ alarms = {}

\* C3: at most one poll timer exists in every reachable state, and when a
\* credential update finishes arming, exactly one timer (the poll alarm) is
\* active, whether or not one was armed before.
C3_OneTimer ==
  /\ [](Cardinality(alarms) <= 1)
  /\ [][\A i \in Msgs :
          (chains[i].pc = "armClear" /\ chains'[i].pc = "done")
            => alarms' = {POLL_ALARM}]_vars

C3_Witness ==
  \E i \in Msgs :
    chains[i].pc = "done" /\ chains[i].cleared /\ alarms = {POLL_ALARM}

\* C4: no two stored readings share the same timestamp.
C4_NoDuplicateTimestamps ==
  \A j, k \in DOMAIN readings :
    j # k => readings[j].timestamp # readings[k].timestamp

\* C5: the stored reading history is timestamp-ascending in every reachable
\* state.
C5_Ascending ==
  \A k \in DOMAIN readings :
    k > 1 => StoredTimes[k - 1] <= StoredTimes[k]

\* C6: when a merge writes the history, every reading it leaves stored
\* (the merged one included) is no older than the retention window, counted
\* from the time at which that merge trimmed.
C6_Retention ==
  [][\A s \in StoreIds :
       (stores[s].pc = "set" /\ stores'[s].pc = "done")
         => \A k \in DOMAIN readings' :
              getTime(readings'[k].timestamp) >= stores[s].cutoff]_vars

C6_Witness ==
  \E s \in StoreIds :
    /\ stores[s].pc = "done"
    /\ stores[s].dropped > 0
    /\ readings # <<>>
    /\ \A k \in DOMAIN readings : now - StoredTimes[k] <= RETENTION_MS

\* C7: merges are atomic: the write of a merge never removes a stored
\* reading that is inside the retention window of that merge (no update of
\* an overlapping merge is lost).
C7_NoLostUpdate ==
  [][\A s \in StoreIds :
       (stores[s].pc = "set" /\ stores'[s].pc = "done")
         => \A k \in DOMAIN readings :
              StoredTimes[k] >= stores[s].cutoff
                => readings[k] \in Range(readings')]_vars

\* C8: no reading with zero sensors and zero thermostats is ever stored in
\* the reading history.
C8_NoEmptyReading ==
  \A k \in DOMAIN readings :
    readings[k].sensors # {} \/ readings[k].thermostats # {}

C8_Witness ==
  /\ Len(readings) = 2
  /\ \E p \in Polls : stores[PollStore(p)].pc = "done"
  /\ \E i \in Msgs : stores[MsgStore(i)].pc = "done"
  /\ \A k \in DOMAIN readings : readings[k].sensors # {}

C10_FailedSaveDoesNotArm ==
  [][\A i \in Msgs :
       (chains'[i] # chains[i] /\ chains'[i].save = "rejected")
         => (alarms' = alarms /\ polls' = polls /\ nestCreds' = nestCreds)]_vars

C10_Witness ==
  \E i \in Msgs :
    /\ chains[i].save = "rejected"
    /\ chains[i].pc = "done"
    /\ ~chains[i].cleared

CredsOf(i) == {[authorization |-> msgs[i].creds.authorization,
                userId        |-> msgs[i].creds.userId]}
ExpiryPcs  == {"clearAlarm", "removeCreds", "reload"}
Disarmed   == nestCreds = {} /\ POLL_ALARM \notin alarms

\* C11: a credential update with both fields persists the credential, then
\* arms the timer, then starts exactly one immediate poll, in that order:
\* handling the message itself stores, arms and polls nothing, the write
\* arms and polls nothing, the timer is armed only by a chain whose write
\* succeeded, and the step that arms it is the one that starts the poll.
C11_SaveThenArmThenPoll ==
  /\ [](\A i \in Msgs : chains[i].pc = "armClear" => chains[i].save = "ok")
  /\ [][\A i \in Msgs :
          /\ (msgs[i].stage = "sent" /\ msgs'[i].stage = "handled")
               => (nestCreds' = nestCreds /\ alarms' = alarms /\ polls' = polls)
          /\ (chains[i].pc = "save" /\ chains'[i].pc # "save")
               => (alarms' = alarms /\ polls' = polls)
          /\ (chains[i].pc = "armClear" /\ chains'[i].pc = "done")
               => /\ POLL_ALARM \in alarms'
                  /\ Cardinality({p \in Polls : polls'[p] # polls[p]}) = 1
                  /\ \A p \in Polls :
                       polls'[p] # polls[p]
                         => (polls[p].pc = "idle" /\ polls'[p].pc = "get")]_vars

C11_Witness ==
  /\ chains[1].pc = "done"
  /\ chains[1].save = "ok"
  /\ ~chains[1].cleared
  /\ nestCreds = CredsOf(1)
  /\ alarms = {POLL_ALARM}
  /\ polls[1].pc = "get"
  /\ \A p \in Polls \ {1} : polls[p].pc = "idle"

\* C12: no vendor request is issued with a credential for which a poll has
\* received 401 or 403, polls that were already started included.
C12_RejectedNeverReused ==
  [][\A q \in Polls :
       (polls[q].pc = "get" /\ polls'[q].pc = "fetch")
         => ~\E p \in Polls : /\ polls[p].pc \in ExpiryPcs
                              /\ polls[p].creds = polls'[q].creds]_vars

\* C13: a poll that ends with a network error, with a status outside 2xx
\* other than 401 and 403, with an unparseable body or with a snapshot that
\* yields no reading changes neither the stored credential nor the alarm
\* nor the stored history and starts no merge; only 401 and 403 lead into
\* the steps that clear the alarm and remove the credential.
C13_TransientFailureChangesNothing ==
  /\ [](\A p \in Polls :
          polls[p].pc \in ExpiryPcs => polls[p].status \in {401, 403})
  /\ [][\A p \in Polls :
          (/\ polls'[p] # polls[p]
           /\ polls[p].pc \in {"get", "fetch", "json"}
           /\ polls'[p].pc \in {"fetch", "json", "done"})
            => /\ nestCreds' = nestCreds
               /\ alarms' = alarms
               /\ readings' = readings
               /\ stores' = stores]_vars

C13_Witness ==
  /\ polls[1].pc = "done"
  /\ stores[PollStore(1)].pc = "idle"
  /\ \A p \in Polls \ {1} : polls[p].pc = "idle"
  /\ \A i \in Msgs \ {1} : msgs[i].stage = "none"
  /\ chains[1].pc = "done"
  /\ nestCreds = CredsOf(1)
  /\ alarms = {POLL_ALARM}
  /\ Len(readings) = 1

\* C14: once the agent is disarmed (no credential stored, no alarm) and no
\* credential update is being processed, it stays disarmed and no poll
\* issues a vendor request; the tab reload is entered once per expired poll,
\* from the credential removal, and is followed by the end of that poll.
C14_StaysDisarmed ==
  /\ [][(Disarmed /\ \A i \in Msgs : chains[i].pc \notin {"save", "armClear"})
          => /\ Disarmed'
             /\ \A p \in Polls :
                  polls[p].pc = "get" => polls'[p].pc \in {"get", "done"}]_vars
  /\ [][\A p \in Polls :
          /\ (polls[p].pc = "reload" /\ polls'[p] # polls[p])
               => polls'[p].pc = "done"
          /\ (polls'[p].pc = "reload" /\ polls[p].pc # "reload")
               => polls[p].pc = "removeCreds"]_vars

C14_Witness ==
  /\ Disarmed
  /\ chains[1].pc = "done"
  /\ chains[1].save = "ok"
  /\ \A p \in Polls : polls[p].pc = "done"

\* C15: every vendor request of a poll comes to an end, so that every poll
\* that has issued its request eventually finishes.
C15_EveryPollFinishes ==
  \A p \in Polls : (polls[p].pc = "fetch") ~> (polls[p].pc = "done")

\* C16: while a poll waits for the vendor's response, a credential update
\* is not held back: the message can be handled, its credential write can
\* complete and its alarm can be re-armed in that very state.
C16_UpdateAcceptedDuringPoll ==
  (\E p \in Polls : polls[p].pc = "fetch") =>
    \A i \in Msgs :
      /\ (msgs[i].stage = "sent" /\ \A j \in Msgs : j < i => msgs[j].stage # "sent")
           => ENABLED (OnMessage(i) /\ Alone(0))
      /\ (chains[i].pc = "save" /\ \A j \in Msgs : j < i => chains[j].pc # "save")
           => ENABLED (SaveCredentials(i, TRUE) /\ Alone(0))
      /\ chains[i].pc = "armClear" => ENABLED (ArmAlarm(i) /\ Alone(0))

C16_Witness ==
  /\ polls[1].pc = "fetch"
  /\ polls[1].creds = CredsOf(1)
  /\ chains[2].pc = "done"
  /\ chains[2].save = "ok"
  /\ chains[2].cleared
  /\ nestCreds = CredsOf(2)
  /\ alarms = {POLL_ALARM}

\* C17: nothing a tick uses lives in the worker's memory: a restart of the
\* idle worker changes neither the stored credential nor the stored history
\* nor the alarm, every poll takes its credential from storage as it is then
\* (and issues no request when none is stored), and every merge starts from
\* the stored history.
C17_RestartTransparent ==
  /\ [][((\E s \in StoreIds : stores[s].pc = "done" /\ stores'[s].pc = "idle")
          \/ (\E i \in Msgs : chains[i].pc = "done" /\ chains'[i].pc = "idle")
          \/ (\E p \in Polls : polls[p].pc = "done" /\ polls'[p].pc = "idle"))
          => UNCHANGED <<nestCreds, readings, alarms, now>>]_vars
  /\ [][\A p \in Polls :
          (polls[p].pc = "get" /\ polls'[p].pc # "get")
            => /\ polls'[p].creds = nestCreds
               /\ polls'[p].pc = IF nestCreds = {} THEN "done" ELSE "fetch"]_vars
  /\ [][\A s \in StoreIds :
          (stores[s].pc = "get" /\ stores'[s].pc = "set")
            => stores'[s].trimmed =
                 trimReadings(pushReading(readings, stores[s].reading),
                              now - RETENTION_MS)]_vars

C17_Witness ==
  /\ \A i \in Msgs : chains[i].pc = "idle"
  /\ nestCreds # {}
  /\ Len(readings) = 2
  /\ \E p \in Polls : stores[PollStore(p)].pc = "done"

C19_NoPartialTrim ==
  /\ [](\A s \in StoreIds :
          stores[s].pc = "set" =>
            LET w == stores[s].trimmed IN
              /\ \A k \in DOMAIN w : getTime(w[k].timestamp) >= stores[s].cutoff
              /\ getTime(stores[s].reading.timestamp) >= stores[s].cutoff
                   => (Len(w) > 0 /\ w[Len(w)] = stores[s].reading))
  /\ [][readings' # readings
          => \E s \in StoreIds : /\ stores[s].pc = "set"
                                 /\ stores'[s].pc = "done"
                                 /\ readings' = stores[s].trimmed]_vars

C19_Witness ==
  /\ readings = <<>>
  /\ \E s \in StoreIds : stores[s].pc = "done" /\ stores[s].dropped > 0

\* C20: parseNestData returns null for every snapshot without a kryptonite
\* and without a shared bucket: a missing or empty updated_buckets list and
\* a list of other bucket types only.
C20_NoSensorDataIsNull ==
  LET bs == IF pin.present THEN pin.updated_buckets ELSE {} IN
    (\A b \in bs : b.type \notin {"kryptonite", "shared"})
      => \A r \in pout : ~r.valid

C20_Witness ==
  /\ pin.present
  /\ pin.updated_buckets # {}
  /\ \A b \in pin.updated_buckets : b.type \notin {"kryptonite", "shared"}
  /\ pout # {}
  /\ \A r \in pout : ~r.valid

\* ------------------------------------------------ parser claims C21..C24
KnownTypes == {"kryptonite", "shared", "device", "where", "rcs_settings"}
Parsed == pout # {} /\ \A r \in pout : r.valid

\* The link table of the map in `pin`, and the entries listing a key.
LinkTable == LET isRcs(b) == b.type = "rcs_settings" IN SelectSeq(pin, isRcs)
Listing(key) ==
  {j \in 1..Len(LinkTable) :
     LinkTable[j].value.associated_rcs_sensors.present
     /\ key \in LinkTable[j].value.associated_rcs_sensors.items}
FirstListing(key) == CHOOSE j \in Listing(key) : \A m \in Listing(key) : j <= m

\* C21: every parsed sensor carries the serial of the first thermostat, in
\* link-table order, whose associated-sensor list contains the sensor's
\* bucket key, and is_active tells whether that same thermostat's active list
\* contains the key; a sensor in no associated list has thermostat serial
\* null and is_active false.
C21_SensorLinkedToFirstThermostat ==
  \A r \in pout : \A k \in DOMAIN r.sensors :
    LET sensor == r.sensors[k]
        key    == Bucket("kryptonite", sensor.serial)
    IN IF Listing(key) = {}
       THEN sensor.thermostat_serial = Null /\ sensor.is_active = FALSE
       ELSE LET rcs == LinkTable[FirstListing(key)] IN
            /\ sensor.thermostat_serial = rcs.serial
            /\ sensor.is_active =
                 (rcs.value.active_rcs_sensors.present
                  /\ key \in rcs.value.active_rcs_sensors.items)

\* A parsed sensor listed by two thermostats that disagree on is_active.
C21_Witness ==
  /\ Parsed
  /\ Cardinality(Listing(SensorKey)) >= 2
  /\ \E i, j \in Listing(SensorKey) :
       /\ LinkTable[i].value.active_rcs_sensors.present
       /\ ~LinkTable[j].value.active_rcs_sensors.present
  /\ \A r \in pout : Len(r.sensors) = 1

\* The shared.* buckets of the map in `pin`.
SharedOf(serial) ==
  {k \in 1..Len(pin) : pin[k].type = "shared" /\ pin[k].serial = serial}

\* C22: a thermostat's hvac_action is "heating" if the heater flag is set,
\* otherwise "cooling" if the AC flag is set, otherwise "fan" if the fan flag
\* is set, otherwise "idle"; it is always one of these four.
C22_HvacActionPriority ==
  \A r \in pout : \A k \in DOMAIN r.thermostats :
    LET th == r.thermostats[k] IN
    /\ th.hvac_action \in {"heating", "cooling", "fan", "idle"}
    /\ \A m \in SharedOf(th.serial) :
         LET val == pin[m].value IN
         /\ val.hvac_heater_state = "true" => th.hvac_action = "heating"
         /\ val.hvac_heater_state # "true" /\ val.hvac_ac_state = "true"
              => th.hvac_action = "cooling"
         /\ val.hvac_heater_state # "true" /\ val.hvac_ac_state # "true"
              /\ val.hvac_fan_state = "true" => th.hvac_action = "fan"
         /\ val.hvac_heater_state # "true" /\ val.hvac_ac_state # "true"
              /\ val.hvac_fan_state # "true" => th.hvac_action = "idle"

\* A thermostat parsed while its heater, AC and fan flags are all set.
C22_Witness ==
  /\ Parsed
  /\ \E m \in 1..Len(pin) :
       /\ pin[m].type = "shared"
       /\ pin[m].value.hvac_heater_state = "true"
       /\ pin[m].value.hvac_ac_state = "true"
       /\ pin[m].value.hvac_fan_state = "true"
  /\ \A r \in pout : Len(r.thermostats) = 1

KnownOnly == LET known(b) == b.type \in KnownTypes IN SelectSeq(pin, known)

\* C23: buckets of unknown types do not change the sensors and thermostats
\* parseNestData produces, and a shared.* bucket with no paired device.*
\* bucket still yields a thermostat, with room label "Thermostat".
C23_UnknownTypesIgnored ==
  \A r \in pout :
    /\ r.valid = parseBuckets(KnownOnly).valid
    /\ r.sensors = parseBuckets(KnownOnly).sensors
    /\ r.thermostats = parseBuckets(KnownOnly).thermostats
    /\ \A m \in 1..Len(pin) :
         (pin[m].type = "shared"
          /\ ~\E d \in 1..Len(pin) :
                pin[d].type = "device" /\ pin[d].serial = pin[m].serial)
         => \E k \in DOMAIN r.thermostats :
              /\ r.thermostats[k].serial = pin[m].serial
              /\ r.thermostats[k].room = "Thermostat"

\* A map with a bucket of an unknown type and a shared.* bucket without its
\* device.* bucket has been parsed.
C23_Witness ==
  /\ Parsed
  /\ \E m \in 1..Len(pin) : pin[m].type \notin KnownTypes
  /\ \E m \in 1..Len(pin) : pin[m].type = "shared"
  /\ ~\E d \in 1..Len(pin) : pin[d].type = "device"
  /\ \A r \in pout : Len(r.thermostats) = 1 /\ r.thermostats[1].room = "Thermostat"

\* C24: for a temperature of n tenths of a degree Celsius cToF yields the
\* tenth of a degree Fahrenheit nearest to 1.8 n + 320 tenths (20.0 C gives
\* 68.0 F), and a missing temperature yields null.
C24_CToFRoundsToTenths ==
  \A f \in pout :
    /\ ~pin.present => ~f.present
    /\ pin.present =>
         /\ f.present
         /\ 2 * (5 * f.tenths - (9 * pin.tenths + 1600)) <= 5
         /\ 2 * ((9 * pin.tenths + 1600) - 5 * f.tenths) < 5
         /\ (pin.tenths = 200 => f.tenths = 680)

\* cToF has converted a temperature whose Fahrenheit value had to be rounded
\* up: 20.2 C is 68.36 F and yields 68.4 F.
C24_Witness ==
  /\ pin = Tenths(202)
  /\ pout = {Tenths(684)}

\* ------------------------------------------------ server claims C25, C26
SeedKeys ==
  {<<SeedTimes[k], TEMPERATURE, SENSOR_NAMES[n]>> :
     k \in 1..Len(SeedTimes), n \in 1..Len(SENSOR_NAMES)}
ReadingKeys(table) == {<<r.timestamp, r.section, r.sensor>> : r \in table}
HvacKeys(table)    == {h.timestamp : h \in table}
SeedStep == seedRuns' = seedRuns + 1

\* C25: a run of the seed script leaves every row that sensor_readings and
\* hvac_states already hold as it is, adds exactly the seed's keys that were
\* missing, and a run after an earlier run changes neither table.
C25_SeedSafeToRepeat ==
  [][SeedStep =>
       /\ sensor_readings \subseteq sensor_readings'
       /\ hvac_states \subseteq hvac_states'
       /\ ReadingKeys(sensor_readings') = ReadingKeys(sensor_readings) \cup SeedKeys
       /\ HvacKeys(hvac_states') = HvacKeys(hvac_states) \cup Range(SeedTimes)
       /\ (seedRuns >= 1 => /\ sensor_readings' = sensor_readings
                            /\ hvac_states' = hvac_states)]_vars

\* The seed has run twice on a database that held an ingested row under one
\* of the seed's keys, and that row still has its ingested value.
C25_Witness ==
  /\ seedRuns = 2
  /\ \E r \in sensor_readings :
       /\ <<r.timestamp, r.section, r.sensor>> \in SeedKeys
       /\ r.value \in {70, 72}
  /\ HvacKeys(hvac_states) = Range(SeedTimes)

Answered == response.kind = "readings"
EarlierStates(t) == {h \in hvac_states : h.timestamp < t}
LastBefore(t) ==
  CHOOSE h \in EarlierStates(t) : \A g \in EarlierStates(t) : g.timestamp <= h.timestamp

\* C26: in the answer to GET /api/readings every snapshot's hvac_action is
\* the action stored for its own timestamp if there is one, otherwise the
\* action stored for the latest earlier timestamp, and "idle" only if no
\* HVAC state is stored for any earlier timestamp.
C26_HvacActionCarriedForward ==
  Answered =>
    \A k \in DOMAIN response.data.rows :
      LET row == response.data.rows[k]
          own == {h \in hvac_states : h.timestamp = row.timestamp}
      IN IF own # {} THEN \A h \in own : row.hvac_action = h.action
         ELSE IF EarlierStates(row.timestamp) # {}
         THEN row.hvac_action = LastBefore(row.timestamp).action
         ELSE row.hvac_action = "idle"

\* An answer with a snapshot that has no HVAC state of its own, after two
\* earlier HVAC states with different actions, the later of which is not
\* "idle".
C26_Witness ==
  /\ Answered
  /\ \E k \in DOMAIN response.data.rows :
       LET row == response.data.rows[k] IN
       /\ row.timestamp \notin HvacKeys(hvac_states)
       /\ Cardinality({h.action : h \in EarlierStates(row.timestamp)}) = 2
       /\ row.hvac_action # "idle"

\* ------------------------------------------------- agent claims C27..C30
\* C27: whenever no handler is running and no browser operation is pending,
\* the poll alarm is scheduled exactly if a credential is stored, whatever
\* the interleaving of credential updates and expiry handling.
C27_ArmedIffCredential ==
  Quiescent => (POLL_ALARM \in alarms <=> nestCreds # {})

\* C28: expiry handling removes only the credential the vendor rejected: a
\* poll that handles a 401/403 while the store holds another credential than
\* the one it sent leaves that credential stored and the alarm scheduled.
ArmedFor(c) ==
  /\ POLL_ALARM \in alarms
  /\ \E i \in Msgs : chains[i].pc = "done" /\ chains[i].save = "ok" /\ CredsOf(i) = c

C28_RemovesOnlyRejected ==
  [][\A p \in Polls :
       (/\ polls[p].pc \in {"clearAlarm", "removeCreds"}
        /\ polls'[p].pc # polls[p].pc
        /\ nestCreds # {}
        /\ nestCreds # polls[p].creds)
       => /\ nestCreds' = nestCreds
          /\ (ArmedFor(nestCreds) => POLL_ALARM \in alarms')]_vars

\* C29: a poll that finds no credential stored returns at once: it sends no
\* vendor request, and the credential store, the alarms, the reading history
\* and every storeReading call are as they were.
C29_PollWithoutCredentialIsNoOp ==
  [][\A p \in Polls :
       (polls[p].pc = "get" /\ polls'[p] # polls[p] /\ nestCreds = {})
       => /\ polls'[p].pc = "done"
          /\ \A q \in Polls : polls'[q].pc = "fetch" => polls[q].pc = "fetch"
          /\ UNCHANGED <<nestCreds, alarms, readings, stores, chains>>]_vars

\* A poll has just returned for lack of a credential, and the alarm is
\* still scheduled.
C29_Witness ==
  /\ skipped # 0
  /\ polls[skipped].pc = "done"
  /\ nestCreds = {}
  /\ POLL_ALARM \in alarms

\* C30: the listener hands the reading of every NEST_READING message to
\* storeReading, with or without credentials, and that call writes a history
\* ending with the reading unless the reading is older than the retention
\* window; handling a message of another type changes neither the stored
\* credential, the history, the alarms nor any running call.
C30_ReadingStoredRegardlessOfCreds ==
  [][\A i \in Msgs :
       /\ (msgs[i].stage = "sent" /\ msgs'[i].stage = "handled"
           /\ msgs[i].type = "NEST_READING")
          => /\ stores'[MsgStore(i)].pc = "get"
             /\ stores'[MsgStore(i)].reading = msgs[i].reading
       /\ (stores[MsgStore(i)].pc = "set" /\ stores'[MsgStore(i)].pc = "done"
           /\ getTime(stores[MsgStore(i)].reading.timestamp)
                >= stores[MsgStore(i)].cutoff)
          => /\ readings' # <<>>
             /\ readings'[Len(readings')] = stores[MsgStore(i)].reading
       /\ (msgs[i].stage = "sent" /\ msgs'[i].stage = "handled"
           /\ msgs[i].type # "NEST_READING")
          => UNCHANGED <<nestCreds, readings, alarms, stores, chains, polls>>]_vars

\* A NEST_READING message without credentials has been handled and its
\* reading is in the history, and a message of another type that carried a
\* credential has been handled and nothing is stored or scheduled for it.
C30_Witness ==
  \E i, j \in Msgs :
    /\ msgs[i].stage = "handled"
    /\ msgs[i].type = "NEST_READING"
    /\ ~credsComplete(msgs[i].creds)
    /\ stores[MsgStore(i)].pc = "done"
    /\ Len(readings) = 1
    /\ msgs[j].stage = "handled"
    /\ msgs[j].type \in OtherTypes
    /\ credsComplete(msgs[j].creds)
    /\ stores[MsgStore(j)].pc = "idle"
    /\ nestCreds = {}
    /\ alarms = {}

\* ---------------------------------------------------------- claim C31
\* C31: the step in which reloadNestTab runs reloads at most one tab: with
\* matching tabs it reloads one of them whose lastAccessed (0 if undefined)
\* no other matching tab exceeds, with no matching tab it reloads nothing,
\* and the step changes nothing of the agent but the poll that ends.
C31_ReloadsAtMostOneTab ==
  [][\A p \in Polls :
       (polls[p].pc = "reload" /\ polls'[p].pc # "reload")
       => /\ reload'.by = p
          /\ Cardinality(reload'.targets) <= 1
          /\ (reload'.tabs = <<>> => reload'.targets = {})
          /\ (reload'.tabs # <<>> =>
                \E k \in 1..Len(reload'.tabs) :
                  /\ reload'.targets = {reload'.tabs[k].id}
                  /\ \A m \in 1..Len(reload'.tabs) :
                       accessed(reload'.tabs[m]) <= accessed(reload'.tabs[k]))
          /\ polls'[p].pc = "done"
          /\ \A q \in Polls \ {p} : polls'[q] = polls[q]
          /\ UNCHANGED <<nestCreds, alarms, readings, msgs, stores, chains>>]_vars

\* The hook has just run with two matching tabs, the second accessed later
\* than the first, and reloaded the second only.
C31_Witness ==
  /\ reload.by # 0
  /\ Len(reload.tabs) = 2
  /\ accessed(reload.tabs[1]) < accessed(reload.tabs[2])
  /\ reload.targets = {reload.tabs[2].id}
  /\ polls[reload.by].pc = "done"

\* ------------------------------------------------ server claims C32..C37
PostStep == posts' = posts + 1
EntryKeys(body) ==
  {<<body.timestamp, body.data.entries[k].section, body.data.entries[k].sensor>> :
     k \in 1..Len(body.data.entries)}
Unbound(body) ==
  {k \in 1..Len(body.data.entries) : body.data.entries[k].type # "number"}
\* The latest request was well-formed and every value of it could be stored.
Ingested ==
  /\ request.timestamp # 0
  /\ request.data.type = "object"
  /\ Unbound(request) = {}

\* C32: after a request with an hvac_action has been ingested, the answer
\* to GET /api/readings gives the snapshot with the request's timestamp that
\* hvac_action.
C32_SubmittedHvacActionReturned ==
  (Answered /\ Ingested /\ request.hvac_action # Null) =>
    \A k \in DOMAIN response.data.rows :
      response.data.rows[k].timestamp = request.timestamp
        => response.data.rows[k].hvac_action = request.hvac_action

\* C33: a POST keeps every stored row as it is and adds rows only under
\* keys that were not stored; a request all of whose keys are stored,
\* whatever values it carries, leaves sensor_readings unchanged.
C33_PostKeepsFirstValue ==
  [][PostStep =>
       /\ sensor_readings \subseteq sensor_readings'
       /\ ReadingKeys(sensor_readings' \ sensor_readings)
            \cap ReadingKeys(sensor_readings) = {}
       /\ (EntryKeys(request') \subseteq ReadingKeys(sensor_readings)
             => sensor_readings' = sensor_readings)
       /\ hvac_states' = hvac_states]_vars

\* A request has been ingested that carried another value for a key that
\* was stored, and the stored value is still the other one.
C33_Witness ==
  /\ response.kind = "ingest"
  /\ \E k \in 1..Len(request.data.entries), r \in sensor_readings :
       LET e == request.data.entries[k] IN
       /\ r.timestamp = request.timestamp
       /\ r.section = e.section
       /\ r.sensor = e.sensor
       /\ r.value # e.value

\* C34: the inserted count of the response to a POST is the number of rows
\* the request added to sensor_readings.
C34_InsertedCountsAddedRows ==
  [][(PostStep /\ response'.kind = "ingest")
       => response'.inserted = Cardinality(sensor_readings' \ sensor_readings)]_vars

\* C35: a POST whose body has no timestamp, or whose data is not an object
\* of sections (null included), is answered with status 400 and leaves both
\* tables unchanged.
C35_MalformedBodyRejected ==
  [][(PostStep /\ (request'.timestamp = 0 \/ request'.data.type # "object"))
       => /\ response' = ErrorResponse(400)
          /\ sensor_readings' = sensor_readings
          /\ hvac_states' = hvac_states]_vars

\* C36: a POST one of whose values cannot be inserted stores none of the
\* request's values.
C36_IngestAllOrNothing ==
  [][(PostStep /\ request'.timestamp # 0 /\ request'.data.type = "object"
        /\ Unbound(request') # {})
       => sensor_readings' = sensor_readings]_vars

\* A request whose first value could be inserted and whose second could not
\* has been answered with an error, and the first value's key is not stored.
C36_Witness ==
  /\ response = ErrorResponse(500)
  /\ request.data.type = "object"
  /\ Unbound(request) = {2}
  /\ <<request.timestamp, request.data.entries[1].section,
       request.data.entries[1].sensor>> \notin ReadingKeys(sensor_readings)

StoredTemperatures(t) ==
  {r \in sensor_readings : r.section = TEMPERATURE /\ r.timestamp = t}

\* C37: the answer to GET /api/readings has exactly one snapshot for every
\* timestamp that has a TEMPERATURE SENSORS row and none for any other, the
\* snapshots are in ascending timestamp order, and each snapshot holds
\* exactly the temperature values stored for its timestamp.
C37_OneSnapshotPerTimestamp ==
  Answered =>
    LET rows == response.data.rows IN
    /\ {rows[k].timestamp : k \in DOMAIN rows}
         = {r.timestamp : r \in {x \in sensor_readings : x.section = TEMPERATURE}}
    /\ \A k, m \in DOMAIN rows : k < m => rows[k].timestamp < rows[m].timestamp
    /\ \A k \in DOMAIN rows :
         /\ DOMAIN rows[k].sensors
              = {r.sensor : r \in StoredTemperatures(rows[k].timestamp)}
         /\ \A r \in StoredTemperatures(rows[k].timestamp) :
              rows[k].sensors[r.sensor] = r.value

\* An answer with three snapshots, one of them with two sensors, from a
\* database that also holds a row of another section.
C37_Witness ==
  /\ Answered
  /\ Len(response.data.rows) >= 3
  /\ \E k \in DOMAIN response.data.rows :
       Cardinality(DOMAIN response.data.rows[k].sensors) = 2
  /\ \E r \in sensor_readings : r.section # TEMPERATURE

\* ------------------------------------------------------------------ C38
Settled == wait.state \in {"resolved", "rejected"}
Falsy(rs) == \A k \in DOMAIN rs : ~passes(rs[k])
Earlier(rs) == SubSeq(rs, 1, Len(rs) - 1)

\* While the promise is pending every result so far was falsy, the latest
\* check ran before the deadline and its timer is set; a resolved promise
\* holds the first truthy result, which is the latest one; a rejected one
\* saw only falsy results, the latest at or after the deadline; and resolve
\* and reject were called once between them, or not at all.
WaitForOutcome ==
  /\ wait.state = "none" => wait = NoWait
  /\ wait.state = "pending" =>
       /\ Falsy(wait.results)
       /\ wait.checkedAt < wait.deadline
       /\ wait.timer = {wait.checkedAt + wait.intervalMs}
       /\ wait.resolves + wait.rejects = 0
  /\ wait.state = "resolved" =>
       /\ wait.results # <<>>
       /\ Falsy(Earlier(wait.results))
       /\ passes(wait.value)
       /\ wait.value = wait.results[Len(wait.results)]
       /\ wait.resolves = 1 /\ wait.rejects = 0
       /\ wait.timer = {}
  /\ wait.state = "rejected" =>
       /\ Falsy(wait.results)
       /\ wait.checkedAt >= wait.deadline
       /\ wait.resolves = 0 /\ wait.rejects = 1
       /\ wait.timer = {}

\* C38: waitFor always settles.  Every call's promise is eventually resolved
\* or rejected; it is resolved with the first truthy result of the
\* predicate, rejected at the first check at or after the deadline when
\* every result was falsy, never both, and once settled it stays as it is.
C38_WaitForSettles ==
  /\ []WaitForOutcome
  /\ [][Settled => wait' = wait]_vars
  /\ (wait.state = "pending") ~> Settled

\* A call whose predicate never returned a truthy value was checked again
\* after a timer and has been rejected past its deadline.
C38_Witness ==
  /\ wait.state = "rejected"
  /\ Len(wait.results) >= 2
  /\ wait.deadline > 0
  /\ now >= wait.deadline
====
